---- MODULE Spec2Model ----
(***************************************************************************)
(* Projection engines of the ETF / DRIP calculator pages.                  *)
(*                                                                         *)
(* JavaScript numbers are modelled as exact fractions <<n, d>> in lowest   *)
(* terms with d > 0, extended with the three IEEE special values that the  *)
(* code can produce by dividing by zero: <<0,0>> is NaN, <<1,0>> is        *)
(* +Infinity and <<-1,0>> is -Infinity.  Binary rounding of doubles is not *)
(* modelled (every finite operation is exact) and zero carries no sign.    *)
(* Math.pow with a fractional exponent is computed exactly and is defined  *)
(* only on the perfect powers the input sets below are built from.         *)
(***************************************************************************)
EXTENDS Integers, Sequences, FiniteSets, TLC

VARIABLES
    callArgs,        \* argument of the engine call under test
    callRet,         \* value the engine call returned
    callPc,          \* "ready" before the call, "returned" after it
    alertMsg,        \* window.alert: message raised by the last handler, "" if none
    inputs,          \* DRIPCalculator (components/DripCalculator.tsx): inputs
    results,         \* DRIPCalculator (the component and the page of that name): results
    showResults,     \* DRIPCalculator: showResults
    totalReturnCAGR, \* DRIPCalculator: totalReturnCAGR of the current render
    initialInvestment, \* Home (the monthly-stepped calculator): form strings
    cagr,
    years,           \* Home: the form string; ETFProjectionPage: years, a number
    startYear,
    taxRate,
    extraInvestment,
    extraFrequency,  \* Home: "monthly", "quarterly" or "yearly"
    projectionData,  \* Home: projectionData
    frames,          \* calculateDRIP: the locals of each invocation in progress
    formData,        \* DRIPCalculator (app/page.tsx): formData
    appliedFormData, \* DRIPCalculator (app/page.tsx): appliedFormData
    hasCalculated,   \* DRIPCalculator (app/page.tsx): hasCalculated
    initialCapital,  \* ETFProjectionPage: the form state
    drip,
    additionalContribution,
    contributionFrequency,
    computedTableData, \* ETFProjectionPage: the computed results
    chartDatasets,
    chartLabels,
    tableRef,        \* ETFProjectionPage: which array object computedTableData holds
    lastEvent,       \* ETFProjectionPage: what ran last, a form event or the effect
    effects          \* the effects of the last committed render that have not run yet

callVars == <<callArgs, callRet, callPc>>
dripVars == <<inputs, results, showResults, totalReturnCAGR>>
formVars == <<initialInvestment, cagr, years, startYear, taxRate, extraInvestment,
              extraFrequency>>
homeVars == <<formVars, projectionData>>
frameVars == <<frames>>
pageVars == <<formData, appliedFormData, hasCalculated>>
etfFormVars == <<initialCapital, drip, additionalContribution, contributionFrequency>>
etfResultVars == <<computedTableData, chartDatasets, chartLabels>>
etfVars == <<etfFormVars, etfResultVars, tableRef, lastEvent>>
vars == <<callVars, alertMsg, dripVars, homeVars, frameVars, pageVars, etfVars, effects>>

\* the variables of a harness or page that is not part of the running specification
NoCall == callArgs = <<>> /\ callRet = <<>> /\ callPc = "none"
NoFrames == frames = <<>>
NoDrip == inputs = <<>> /\ results = <<>> /\ showResults = FALSE /\ totalReturnCAGR = <<>>
NoHome ==
    /\ initialInvestment = <<>> /\ cagr = <<>> /\ years = <<>> /\ startYear = <<>>
    /\ taxRate = <<>> /\ extraInvestment = <<>> /\ extraFrequency = ""
    /\ projectionData = <<>>
NoPage == formData = <<>> /\ appliedFormData = <<>> /\ hasCalculated = FALSE
NoEtf ==
    /\ initialCapital = <<>> /\ drip = FALSE /\ additionalContribution = <<>>
    /\ contributionFrequency = "" /\ computedTableData = <<>> /\ chartDatasets = <<>>
    /\ chartLabels = <<>> /\ tableRef = 0 /\ lastEvent = ""
NoEffects == effects = {}

(***************************************************************************)
(* Numbers                                                                 *)
(***************************************************************************)
NaN == <<0, 0>>
PosInf == <<1, 0>>
NegInf == <<-1, 0>>

Abs(n) == IF n < 0 THEN -n ELSE n
Sign(n) == IF n > 0 THEN 1 ELSE IF n < 0 THEN -1 ELSE 0

RECURSIVE GCD(_, _)
GCD(a, b) == IF b = 0 THEN a ELSE GCD(b, a % b)

Norm(n, d) ==
    IF d = 0 THEN <<Sign(n), 0>>
    ELSE LET g == GCD(Abs(n), Abs(d))
         IN  <<Sign(d) * (n \div g), Abs(d) \div g>>

Num(n) == <<n, 1>>
Frac(n, d) == Norm(n, d)
Zero == Num(0)
One == Num(1)
Hundred == Num(100)

IsNaN(a) == a = NaN
IsFinite(a) == a[2] # 0

Neg(a) == <<-a[1], a[2]>>
Add(a, b) ==
    IF a[2] = 0 /\ b[2] = 0
    THEN (IF a = b THEN a ELSE NaN)
    ELSE Norm(a[1] * b[2] + b[1] * a[2], a[2] * b[2])
Sub(a, b) == Add(a, Neg(b))
Mul(a, b) == Norm(a[1] * b[1], a[2] * b[2])
Recip(a) == Norm(a[2], a[1])
Div(a, b) == Mul(a, Recip(b))

\* a < b, a <= b, a === b on numbers: every comparison with NaN is false
Lt(a, b) ==
    /\ ~IsNaN(a) /\ ~IsNaN(b) /\ a # b
    /\ IF a[2] = 0 THEN a = NegInf
       ELSE IF b[2] = 0 THEN b = PosInf
       ELSE a[1] * b[2] < b[1] * a[2]
Le(a, b) == ~IsNaN(a) /\ ~IsNaN(b) /\ (a = b \/ Lt(a, b))
Gt(a, b) == Lt(b, a)
Ge(a, b) == Le(b, a)
Eq(a, b) == ~IsNaN(a) /\ a = b

\* e, evaluated once the number a has been evaluated: TLC passes operator
\* arguments unevaluated, and a long loop would otherwise hand a chain of
\* pending steps as deep as the loop is long to its last iteration
After(a, e) == IF a[2] >= 0 THEN e ELSE e

\* Math.max(a, b)
MathMax(a, b) == IF IsNaN(a) \/ IsNaN(b) THEN NaN ELSE IF Lt(a, b) THEN b ELSE a

\* Math.round(a): the nearest integer, halves towards +Infinity
MathRound(a) ==
    IF ~IsFinite(a) THEN a ELSE Num((2 * a[1] + a[2]) \div (2 * a[2]))

\* a.toFixed(2): the decimal string with two digits after the point, held as
\* the number it spells (halves away from zero)
ToFixed2(a) ==
    IF ~IsFinite(a) THEN a
    ELSE Norm(Sign(a[1]) * ((200 * Abs(a[1]) + a[2]) \div (2 * a[2])), 100)

\* Math.pow(a, k) for an integer k >= 0; Math.pow(x, 0) is 1 for every x
RECURSIVE PowInt(_, _)
PowInt(a, k) == IF k = 0 THEN One ELSE Mul(a, PowInt(a, k - 1))

\* the exact integer r-th root of a perfect r-th power n >= 0
IRoot(n, r) == CHOOSE k \in 0..n : PowInt(Num(k), r) = Num(n)

\* n >= 0 is a perfect r-th power
IsPerfectPower(n, r) == \E k \in 0..n : PowInt(Num(k), r) = Num(n)

\* an irrational root is kept to this many parts of a unit, rounded down
RootPrecision == 28

\* the largest k with k^r <= x
RootFloor(x, r) ==
    CHOOSE k \in 0..x : PowInt(Num(k), r)[1] <= x /\ x < PowInt(Num(k + 1), r)[1]

\* Math.pow(a, 1/r) for r >= 2: exact on perfect powers, otherwise the
\* multiple of 1 / RootPrecision next below the root
PowRoot(a, r) ==
    IF IsNaN(a) THEN NaN
    ELSE IF ~IsFinite(a) THEN PosInf
    ELSE IF a[1] < 0 THEN NaN
    ELSE IF IsPerfectPower(a[1], r) /\ IsPerfectPower(a[2], r)
    THEN <<IRoot(a[1], r), IRoot(a[2], r)>>
    ELSE Frac(RootFloor((a[1] * PowInt(Num(RootPrecision), r)[1]) \div a[2], r),
              RootPrecision)

(***************************************************************************)
(* Strings are sequences of one-character strings; parseFloat and parseInt *)
(* read the longest numeric prefix (no exponent, no leading blanks: the    *)
(* typed strings below contain neither).                                   *)
(***************************************************************************)
DigitChars == <<"0", "1", "2", "3", "4", "5", "6", "7", "8", "9">>
IsDigit(c) == \E i \in 1..10 : DigitChars[i] = c
DigitVal(c) == (CHOOSE i \in 1..10 : DigitChars[i] = c) - 1

\* number of digits of s from position i on
RECURSIVE DigitRun(_, _)
DigitRun(s, i) ==
    IF i <= Len(s) /\ IsDigit(s[i]) THEN 1 + DigitRun(s, i + 1) ELSE 0

\* value of the n digits of s that start at position i
RECURSIVE DigitsValue(_, _, _)
DigitsValue(s, i, n) ==
    IF n = 0 THEN 0 ELSE DigitsValue(s, i, n - 1) * 10 + DigitVal(s[i + n - 1])

RECURSIVE TenTo(_)
TenTo(n) == IF n = 0 THEN 1 ELSE 10 * TenTo(n - 1)

HasSign(s) == Len(s) >= 1 /\ s[1] \in {"-", "+"}
SignOf(s) == IF Len(s) >= 1 /\ s[1] = "-" THEN -1 ELSE 1

parseFloat(s) ==
    LET start == IF HasSign(s) THEN 2 ELSE 1
        ni == DigitRun(s, start)
        dot == start + ni <= Len(s) /\ s[start + ni] = "."
        nf == IF dot THEN DigitRun(s, start + ni + 1) ELSE 0
    IN  IF ni = 0 /\ nf = 0 THEN NaN
        ELSE Norm(SignOf(s) * (DigitsValue(s, start, ni) * TenTo(nf)
                                + DigitsValue(s, start + ni + 1, nf)),
                  TenTo(nf))

parseInt(s) ==
    LET start == IF HasSign(s) THEN 2 ELSE 1
        ni == DigitRun(s, start)
    IN  IF ni = 0 THEN NaN ELSE Num(SignOf(s) * DigitsValue(s, start, ni))

(***************************************************************************)
(* components/DripCalculator.tsx: the share-tracking engine                *)
(***************************************************************************)
\* one pass of the loop body of calculateDRIP for the 0-based index year
\* "actualYear = inputs.startingYear + year", with the label counted from the
\* year after startingYear
ActualYearFromNext(inp, year) == Add(inp.startingYear, Num(year + 1))

\* actualYear = inputs.startingYear + year
ActualYear(inp, year) == Add(inp.startingYear, Num(year))

\* "currentDividendYield" with the growth factor added instead of multiplied
CurrentDividendYieldAdded(inp, year) ==
    Add(Div(inp.dividendYield, Hundred),
        PowInt(Add(One, Div(inp.dividendGrowth, Hundred)), year))

\* currentDividendYield = (dividendYield / 100) * Math.pow(1 + dividendGrowth / 100, year)
CurrentDividendYield(inp, year) ==
    Mul(Div(inp.dividendYield, Hundred),
        PowInt(Add(One, Div(inp.dividendGrowth, Hundred)), year))

\* "currentShares += sharesPurchasedFromCash" written with -=
SharesAfterSale(currentShares, sharesPurchasedFromCash) == Sub(currentShares, sharesPurchasedFromCash)

\* currentShares += sharesPurchasedFromCash
SharesAfterPurchase(currentShares, sharesPurchasedFromCash) == Add(currentShares, sharesPurchasedFromCash)

\* "feesPaid" with the expense ratio taken as a fraction instead of a percentage
FeesPaidUnscaled(inp, openingNAV) == Mul(openingNAV, inp.expenseRatio)

\* feesPaid = openingNAV * (inputs.expenseRatio / 100)
FeesPaid(inp, openingNAV) == Mul(openingNAV, Div(inp.expenseRatio, Hundred))

DripYear(inp, year, currentShares, previousNAV) ==
    LET growth == Add(One, Div(inp.sharePriceGrowth, Hundred))
        actualYear == ActualYear(inp, year)
        yearNumber == year + 1
        startPrice ==
            IF year = 0 THEN inp.currentSharePrice
            ELSE Mul(inp.currentSharePrice, PowInt(growth, year))
        openingNAV == Mul(currentShares, startPrice)
        currentDividendYield == CurrentDividendYield(inp, year)
        grossDividends == Mul(openingNAV, currentDividendYield)
        dividendTaxPaid == Mul(grossDividends, Div(inp.dividendTaxRate, Hundred))
        feesPaid == FeesPaid(inp, openingNAV)
        netDividends == MathMax(Zero, Sub(grossDividends, dividendTaxPaid))
        yearlyExtraContributions ==
            Mul(inp.extraContributions, inp.contributionFrequency)
        midYearPrice == Mul(startPrice, PowRoot(growth, 2))
        cashToReinvest == Add(netDividends, yearlyExtraContributions)
        sharesPurchasedFromCash ==
            IF Gt(midYearPrice, Zero) THEN Div(cashToReinvest, midYearPrice) ELSE Zero
        totalShares == SharesAfterPurchase(currentShares, sharesPurchasedFromCash)
        endPrice == Mul(inp.currentSharePrice, PowInt(growth, year + 1))
        closingNAVBeforeFees == Mul(totalShares, endPrice)
        closingNAV == Sub(closingNAVBeforeFees, feesPaid)
        postTaxNAV == MathMax(Zero, closingNAV)
        annualReturn ==
            IF year = 0
            THEN Mul(Div(Sub(postTaxNAV, inp.initialInvestment),
                         inp.initialInvestment), Hundred)
            ELSE Mul(Div(Sub(postTaxNAV, previousNAV), previousNAV), Hundred)
        cumulativeReturn ==
            Mul(Div(Sub(postTaxNAV, inp.initialInvestment),
                    inp.initialInvestment), Hundred)
    IN  [year |-> actualYear,
         yearNumber |-> yearNumber,
         openingNAV |-> openingNAV,
         grossDividends |-> grossDividends,
         feesPaid |-> feesPaid,
         netDividends |-> netDividends,
         dividendTaxPaid |-> dividendTaxPaid,
         extraContributions |-> yearlyExtraContributions,
         sharesPurchasedFromCash |-> sharesPurchasedFromCash,
         totalShares |-> totalShares,
         sharePrice |-> endPrice,
         closingNAV |-> closingNAVBeforeFees,
         postTaxNAV |-> postTaxNAV,
         annualReturn |-> annualReturn,
         cumulativeReturn |-> cumulativeReturn]

\* the loop test written "year + 1 < inputs.investmentPeriod": the last pass is lost
DripLoopTestOneShort(inp, year) == Lt(Num(year + 1), inp.investmentPeriod)

\* the loop test "year < inputs.investmentPeriod"
DripLoopTest(inp, year) == Lt(Num(year), inp.investmentPeriod)

\* for (let year = 0; year < inputs.investmentPeriod; year++) { ... push ... }
RECURSIVE DripLoop(_, _, _, _, _)
DripLoop(inp, year, currentShares, previousNAV, acc) ==
    IF ~DripLoopTest(inp, year) THEN acc
    ELSE LET r == DripYear(inp, year, currentShares, previousNAV)
         IN  DripLoop(inp, year + 1, r.totalShares, r.postTaxNAV,
                      Append(acc, r))

\* the starting share count taken to be the invested amount itself
calculateDRIPSharesNotDivided(inp) ==
    DripLoop(inp, 0, inp.initialInvestment, inp.initialInvestment, <<>>)

calculateDRIP(inp) ==
    DripLoop(inp, 0, Div(inp.initialInvestment, inp.currentSharePrice),
             inp.initialInvestment, <<>>)

\* inputsAreValid of DRIPCalculator, as a predicate of the inp it reads
inputsAreValid(inp) ==
    /\ Gt(inp.initialInvestment, Zero)
    /\ Gt(inp.currentSharePrice, Zero)
    /\ Gt(inp.investmentPeriod, Zero)
    /\ Ge(inp.sharePriceGrowth, Zero)
    /\ Ge(inp.dividendYield, Zero)
    /\ Ge(inp.dividendGrowth, Zero)
    /\ Ge(inp.expenseRatio, Zero)
    /\ Ge(inp.dividendTaxRate, Zero)
    /\ Ge(inp.extraContributions, Zero)

(***************************************************************************)
(* Bounds and input sets                                                   *)
(***************************************************************************)
\* longest horizon, in years, an engine call is given
MaxYears == 3

\* whole and fractional horizons up to MaxYears, and the non-positive ones
Horizons == {Num(n) : n \in -1..MaxYears} \cup {Frac(3, 2)}

\* growth rates in percent whose factor 1 + g/100 has an exact square root
GrowthRates == {Num(0), Num(300)}

StartingYears == {Num(2026), Num(2030)}

\* defaultInputs: the values the form opens with
defaultInputs ==
    [initialInvestment |-> Num(100000),
     currentSharePrice |-> Num(26),
     sharePriceGrowth |-> Frac(15, 2),
     dividendYield |-> Frac(18, 5),
     dividendGrowth |-> Num(11),
     expenseRatio |-> Frac(3, 50),
     dividendTaxRate |-> Num(15),
     extraContributions |-> Num(0),
     contributionFrequency |-> Num(12),
     investmentPeriod |-> Num(15),
     startingYear |-> Num(2026)]

\* the defaults over a single year
DefaultsOneYear == [defaultInputs EXCEPT !.investmentPeriod = One]

DripInputs ==
    {DefaultsOneYear} \cup
    [initialInvestment : {Num(0), Num(8)},
     currentSharePrice : {Num(-2), Num(0), Num(2), Num(3)},
     sharePriceGrowth : GrowthRates,
     dividendYield : {Num(0), Num(50)},
     dividendGrowth : {Num(0), Num(100)},
     dividendTaxRate : {Num(0), Num(50), Num(100), Num(200)},
     expenseRatio : {Num(0), Num(50)},
     extraContributions : {Num(0), Num(3)},
     contributionFrequency : {Num(1), Num(12)},
     investmentPeriod : Horizons,
     startingYear : StartingYears]

(***************************************************************************)
(* One call of calculateDRIP on an arbitrary input                         *)
(***************************************************************************)
InitDRIP ==
    /\ NoPage /\ NoEtf /\ NoEffects
    /\ NoFrames
    /\ callArgs \in DripInputs
    /\ callRet = <<>>
    /\ callPc = "ready"
    /\ alertMsg = ""
    /\ NoDrip
    /\ NoHome

CallCalculateDRIP ==
    /\ callPc = "ready"
    /\ callRet' = calculateDRIP(callArgs)
    /\ callPc' = "returned"
    /\ UNCHANGED <<callArgs, alertMsg, dripVars, homeVars, frameVars, pageVars, etfVars, effects>>

NextDRIP == CallCalculateDRIP

SpecDRIP == InitDRIP /\ [][NextDRIP]_vars

(***************************************************************************)
(* calculateDRIP statement by statement: every invocation has its own      *)
(* results, currentShares, previousNAV and year (they are declared inside  *)
(* the function), and the two call sites of the component, the per-render  *)
(* call in calculateTotalReturnCAGR and the one in handleCalculate, may    *)
(* each have an invocation under way.                                      *)
(***************************************************************************)
Callers == {"calculateTotalReturnCAGR", "handleCalculate"}

NoFrame == [pc |-> "idle"]

\* inputs the invocations are given
CallInputs ==
    [initialInvestment : {Num(8)},
     currentSharePrice : {Num(2)},
     sharePriceGrowth : {Num(300)},
     dividendYield : {Num(50)},
     dividendGrowth : {Num(100)},
     dividendTaxRate : {Num(0), Num(50)},
     expenseRatio : {Num(0), Num(50)},
     extraContributions : {Num(3)},
     contributionFrequency : {Num(1)},
     investmentPeriod : {Num(0), Num(2), Num(MaxYears)},
     startingYear : {Num(2026)}]

\* the locals as the function body sets them up before the loop
EntryFrame(inp) ==
    [pc |-> "loop", inp |-> inp, year |-> 0,
     currentShares |-> Div(inp.initialInvestment, inp.currentSharePrice),
     previousNAV |-> inp.initialInvestment,
     results |-> <<>>]

\* "const results = []" missing: the array outlives the call and is shared
EnterCalculateDRIPSharedResults(c, inp) ==
    /\ frames[c].pc \in {"idle", "returned"}
    /\ frames' = [frames EXCEPT ![c] =
           [EntryFrame(inp) EXCEPT !.results =
                IF \E d \in Callers \ {c} : frames[d].pc # "idle"
                THEN frames[CHOOSE d \in Callers \ {c} : frames[d].pc # "idle"].results
                ELSE <<>>]]
    /\ UNCHANGED <<callVars, alertMsg, dripVars, homeVars, pageVars, etfVars, effects>>

\* a call site invokes calculateDRIP(inp)
EnterCalculateDRIP(c, inp) ==
    /\ frames[c].pc \in {"idle", "returned"}
    /\ frames' = [frames EXCEPT ![c] = EntryFrame(inp)]
    /\ UNCHANGED <<callVars, alertMsg, dripVars, homeVars, pageVars, etfVars, effects>>

\* the locals after one pass of the loop that pushed record r
FrameAfterYear(f, r) ==
    [f EXCEPT !.year = f.year + 1,
              !.currentShares = r.totalShares,
              !.previousNAV = r.postTaxNAV,
              !.results = Append(f.results, r)]

\* one pass of the loop body
LoopCalculateDRIP(c) ==
    /\ frames[c].pc = "loop"
    /\ DripLoopTest(frames[c].inp, frames[c].year)
    /\ frames' = [frames EXCEPT ![c] =
           FrameAfterYear(frames[c],
                          DripYear(frames[c].inp, frames[c].year,
                                   frames[c].currentShares, frames[c].previousNAV))]
    /\ UNCHANGED <<callVars, alertMsg, dripVars, homeVars, pageVars, etfVars, effects>>

\* the loop test fails: return results
ReturnCalculateDRIP(c) ==
    /\ frames[c].pc = "loop"
    /\ ~DripLoopTest(frames[c].inp, frames[c].year)
    /\ frames' = [frames EXCEPT ![c].pc = "returned"]
    /\ UNCHANGED <<callVars, alertMsg, dripVars, homeVars, pageVars, etfVars, effects>>

InitCalls ==
    /\ NoPage /\ NoEtf /\ NoEffects
    /\ frames = [c \in Callers |-> NoFrame]
    /\ alertMsg = ""
    /\ NoCall
    /\ NoDrip
    /\ NoHome

NextCalls ==
    \/ \E c \in Callers : \E inp \in CallInputs : EnterCalculateDRIP(c, inp)
    \/ \E c \in Callers : LoopCalculateDRIP(c)
    \/ \E c \in Callers : ReturnCalculateDRIP(c)

SpecCalls == InitCalls /\ [][NextCalls]_vars

(***************************************************************************)
(* components/DripCalculator.tsx: the DRIPCalculator component             *)
(***************************************************************************)
\* calculateTotalReturnCAGR.  The number returned is 0 when zero is TRUE and
\* (Math.pow(finalValue / initialValue, 1 / years) - 1) * 100 otherwise; the
\* root is irrational in general, so the three arguments stand for it.
TotalReturnOf(inp, res) ==
    IF Len(res) = 0
    THEN [zero |-> TRUE, finalValue |-> Zero, initialValue |-> Zero,
          years |-> Zero]
    ELSE [zero |-> FALSE, finalValue |-> res[Len(res)].postTaxNAV,
          initialValue |-> inp.initialInvestment,
          years |-> inp.investmentPeriod]

calculateTotalReturnCAGR(inp) == TotalReturnOf(inp, calculateDRIP(inp))

InvalidInputsAlert ==
    "Please ensure all inputs are non-negative and required fields are filled."

\* an emptied number box and a negative entry
Blank == <<>>
Negative == <<"-", "5">>

\* the strings the form hands to handleInputChange for each field
TypedValues ==
    [initialInvestment |-> {Blank, Negative, <<"8">>},
     currentSharePrice |-> {Blank, <<"2">>},
     sharePriceGrowth |-> {Blank},
     dividendYield |-> {Blank, <<"5", "0">>},
     dividendGrowth |-> {Blank},
     dividendTaxRate |-> {Blank, <<"1", "0", "0">>},
     expenseRatio |-> {Blank, <<"1", "0">>},
     extraContributions |-> {Blank},
     contributionFrequency |-> {<<"1", "2">>},
     investmentPeriod |-> {Blank, Negative, <<"1">>, <<"2">>},
     startingYear |-> {Blank, <<"2", "0", "2", "6">>}]

Fields == DOMAIN TypedValues

\* the value handleInputChange stores for a typed string
StoredValue(value) ==
    LET numValue == parseFloat(value)
    IN  IF IsNaN(numValue) \/ Lt(numValue, Zero) THEN Zero ELSE numValue

\* the inputs the form can hold once the user has typed into its fields.  The
\* values of defaultInputs (a 15-year horizon at 7.5% growth) lie outside the
\* exact arithmetic of this model, so the component starts from any typed
\* inputs that, like the defaults, pass inputsAreValid.
StoredValues(f) == {StoredValue(v) : v \in TypedValues[f]}

TypedInputs ==
    [initialInvestment : StoredValues("initialInvestment"),
     currentSharePrice : StoredValues("currentSharePrice"),
     sharePriceGrowth : StoredValues("sharePriceGrowth"),
     dividendYield : StoredValues("dividendYield"),
     dividendGrowth : StoredValues("dividendGrowth"),
     dividendTaxRate : StoredValues("dividendTaxRate"),
     expenseRatio : StoredValues("expenseRatio"),
     extraContributions : StoredValues("extraContributions"),
     contributionFrequency : StoredValues("contributionFrequency"),
     investmentPeriod : StoredValues("investmentPeriod"),
     startingYear : StoredValues("startingYear")]

InitCalculator ==
    /\ NoPage /\ NoEtf /\ NoEffects
    /\ NoFrames
    /\ inputs \in {inp \in TypedInputs : inputsAreValid(inp)}
    /\ results = <<>>
    /\ showResults = FALSE
    /\ totalReturnCAGR = calculateTotalReturnCAGR(inputs)
    /\ alertMsg = ""
    /\ NoCall
    /\ NoHome

\* handleInputChange without its "isNaN(numValue) || numValue < 0" guard
handleInputChangeUnguarded(field, value) ==
    /\ inputs' = [inputs EXCEPT ![field] = parseFloat(value)]
    /\ totalReturnCAGR' = calculateTotalReturnCAGR(inputs')
    /\ alertMsg' = ""
    /\ UNCHANGED <<results, showResults, callVars, frameVars, homeVars, pageVars, etfVars, effects>>

handleInputChange(field, value) ==
    /\ inputs' = [inputs EXCEPT ![field] = StoredValue(value)]
    /\ totalReturnCAGR' = calculateTotalReturnCAGR(inputs')
    /\ alertMsg' = ""
    /\ UNCHANGED <<results, showResults, callVars, frameVars, homeVars, pageVars, etfVars, effects>>

\* handleCalculate without its "if (!inputsAreValid())" branch
handleCalculateUnvalidated ==
    /\ results' = calculateDRIP(inputs)
    /\ showResults' = TRUE
    /\ alertMsg' = ""
    /\ UNCHANGED <<inputs, totalReturnCAGR, callVars, frameVars, homeVars, pageVars, etfVars, effects>>

handleCalculate ==
    /\ IF ~inputsAreValid(inputs)
       THEN /\ alertMsg' = InvalidInputsAlert
            /\ UNCHANGED <<results, showResults>>
       ELSE /\ results' = calculateDRIP(inputs)
            /\ showResults' = TRUE
            /\ alertMsg' = ""
    /\ UNCHANGED <<inputs, totalReturnCAGR, callVars, frameVars, homeVars, pageVars, etfVars, effects>>

NextCalculator ==
    \/ \E field \in Fields : \E value \in TypedValues[field] :
           handleInputChange(field, value)
    \/ handleCalculate

SpecCalculator == InitCalculator /\ [][NextCalculator]_vars

(***************************************************************************)
(* The monthly-stepped calculator (component Home)                         *)
(***************************************************************************)
\* new Date().getFullYear()
currentYear == 2026

FREQUENCY_MAP == [monthly |-> 12, quarterly |-> 4, yearly |-> 1]

\* "month matches frequency"
ContributionMonth(freqName, month) ==
    \/ freqName = "monthly"
    \/ (freqName = "quarterly" /\ month % 3 = 0)
    \/ (freqName = "yearly" /\ month = 12)

\* const extraPerPeriod = extraAmt / (periodsPerYear / freq)
ExtraPerPeriod(extraAmt, freqName) ==
    Div(extraAmt, Div(Num(12), Num(FREQUENCY_MAP[freqName])))

\* the inner loop "for (let month = 1; month <= 12; month++)" from month on
RECURSIVE MonthLoop(_, _, _, _, _)
MonthLoop(portfolioValue, month, monthlyReturn, extraPerPeriod, freqName) ==
    IF month > 12 THEN portfolioValue
    ELSE LET grown == Mul(portfolioValue, Add(One, monthlyReturn))
             next == IF ContributionMonth(freqName, month)
                     THEN Add(grown, extraPerPeriod) ELSE grown
         IN  After(next, MonthLoop(next, month + 1, monthlyReturn, extraPerPeriod,
                                   freqName))

\* the loop test "year <= term"
YearLoopTest(year, term) == Le(Num(year), term)

\* the outer loop "for (let year = 0; year <= term; year++)" from year on
RECURSIVE YearLoop(_, _, _, _, _, _, _, _)
YearLoop(year, term, portfolioValue, monthlyReturn, extraPerPeriod, freqName, startYearNum, data) ==
    IF ~YearLoopTest(year, term) THEN data
    ELSE LET endBalance ==
                 MonthLoop(portfolioValue, 1, monthlyReturn, extraPerPeriod, freqName)
         IN  YearLoop(year + 1, term, endBalance, monthlyReturn, extraPerPeriod,
                      freqName, startYearNum,
                      Append(data, [year |-> Add(startYearNum, Num(year)),
                                    startBalance |-> portfolioValue,
                                    endBalance |-> endBalance]))

\* the rows calculateProjection builds once every check has passed
ProjectionRows(principal, netAnnualReturn, term, extraAmt, freqName, startYearNum) ==
    YearLoop(0, term, principal,
             Sub(PowRoot(Add(One, netAnnualReturn), 12), One),
             ExtraPerPeriod(extraAmt, freqName), freqName, startYearNum, <<>>)

NoGrowthAlert == "Tax drag is higher than or equal to CAGR. No growth possible."

\* the checks of calculateProjection without the one on the net return
ProjectionErrorNetReturnUnchecked(principal, annualReturn, term, startYearNum, tax, extraAmt) ==
    IF IsNaN(principal) \/ Le(principal, Zero)
    THEN "Please enter a valid initial investment amount > 0"
    ELSE IF IsNaN(annualReturn) \/ Le(annualReturn, Zero)
    THEN "Please enter a valid CAGR % > 0"
    ELSE IF IsNaN(term) \/ Le(term, Zero)
    THEN "Please enter a valid investment term (years) > 0"
    ELSE IF IsNaN(startYearNum) \/ Lt(startYearNum, Num(currentYear))
    THEN "Please enter a valid starting year (>= currentYear)"
    ELSE IF IsNaN(tax) \/ Lt(tax, Zero) \/ Gt(tax, One)
    THEN "Please enter a valid tax rate between 0 and 1 (e.g. 0.014 for 1.4%)"
    ELSE IF IsNaN(extraAmt) \/ Lt(extraAmt, Zero)
    THEN "Please enter a valid extra investment amount >= 0"
    ELSE ""

\* the message of the first check of calculateProjection that fails, "" if
\* none does (the numbers interpolated into the messages are left out)
ProjectionError(principal, annualReturn, term, startYearNum, tax, extraAmt) ==
    IF IsNaN(principal) \/ Le(principal, Zero)
    THEN "Please enter a valid initial investment amount > 0"
    ELSE IF IsNaN(annualReturn) \/ Le(annualReturn, Zero)
    THEN "Please enter a valid CAGR % > 0"
    ELSE IF IsNaN(term) \/ Le(term, Zero)
    THEN "Please enter a valid investment term (years) > 0"
    ELSE IF IsNaN(startYearNum) \/ Lt(startYearNum, Num(currentYear))
    THEN "Please enter a valid starting year (>= currentYear)"
    ELSE IF IsNaN(tax) \/ Lt(tax, Zero) \/ Gt(tax, One)
    THEN "Please enter a valid tax rate between 0 and 1 (e.g. 0.014 for 1.4%)"
    ELSE IF IsNaN(extraAmt) \/ Lt(extraAmt, Zero)
    THEN "Please enter a valid extra investment amount >= 0"
    ELSE IF Le(Sub(annualReturn, tax), Zero)
    THEN NoGrowthAlert
    ELSE ""

\* the strings typed into the form.  Every accepted pair of cagr and taxRate
\* gives a net return whose monthly factor is exact: 4096 = 2^12.
TypedPrincipal == {<<"1">>, <<"0">>}
TypedCagr == {<<"4", "0", "9", "6", "0", "0">>, <<"1", "0", "0">>, Blank}
TypedYears == {<<"1">>, <<"1", ".", "9">>, <<"0">>}
TypedStartYear == {<<"2", "0", "2", "6">>, <<"2", "0", "2", "5">>}
TypedTaxRate == {<<"1">>, <<"2">>}
TypedExtra == {<<"0">>, <<"1", "2">>, <<"-", "1", "2">>}

InitHome ==
    /\ NoPage /\ NoEtf /\ NoEffects
    /\ NoFrames
    /\ initialInvestment \in TypedPrincipal
    /\ cagr \in TypedCagr
    /\ years \in TypedYears
    /\ startYear \in TypedStartYear
    /\ taxRate \in TypedTaxRate
    /\ extraInvestment \in TypedExtra
    /\ extraFrequency \in DOMAIN FREQUENCY_MAP
    /\ projectionData = <<>>
    /\ alertMsg = ""
    /\ NoCall
    /\ NoDrip

HomeFrame == UNCHANGED <<projectionData, callVars, frameVars, dripVars, pageVars, etfVars, effects>> /\ alertMsg' = ""

setInitialInvestment(value) ==
    /\ initialInvestment' = value
    /\ UNCHANGED <<cagr, years, startYear, taxRate, extraInvestment, extraFrequency>>
    /\ HomeFrame

setCagr(value) ==
    /\ cagr' = value
    /\ UNCHANGED <<initialInvestment, years, startYear, taxRate, extraInvestment,
                   extraFrequency>>
    /\ HomeFrame

setYears(value) ==
    /\ years' = value
    /\ UNCHANGED <<initialInvestment, cagr, startYear, taxRate, extraInvestment,
                   extraFrequency>>
    /\ HomeFrame

setStartYear(value) ==
    /\ startYear' = value
    /\ UNCHANGED <<initialInvestment, cagr, years, taxRate, extraInvestment,
                   extraFrequency>>
    /\ HomeFrame

setTaxRate(value) ==
    /\ taxRate' = value
    /\ UNCHANGED <<initialInvestment, cagr, years, startYear, extraInvestment,
                   extraFrequency>>
    /\ HomeFrame

setExtraInvestment(value) ==
    /\ extraInvestment' = value
    /\ UNCHANGED <<initialInvestment, cagr, years, startYear, taxRate, extraFrequency>>
    /\ HomeFrame

setExtraFrequency(value) ==
    /\ extraFrequency' = value
    /\ UNCHANGED <<initialInvestment, cagr, years, startYear, taxRate, extraInvestment>>
    /\ HomeFrame

\* calculateProjection with "setProjectionData([])" before each early return
calculateProjectionClearing ==
    LET error == ProjectionError(parseFloat(initialInvestment),
                                 Div(parseFloat(cagr), Hundred), parseInt(years),
                                 parseInt(startYear), parseFloat(taxRate),
                                 parseFloat(extraInvestment))
    IN  /\ IF error # ""
           THEN /\ alertMsg' = error
                /\ projectionData' = <<>>
           ELSE /\ projectionData' =
                       ProjectionRows(parseFloat(initialInvestment),
                                      Sub(Div(parseFloat(cagr), Hundred),
                                          parseFloat(taxRate)),
                                      parseInt(years), parseFloat(extraInvestment),
                                      extraFrequency, parseInt(startYear))
                /\ alertMsg' = ""
        /\ UNCHANGED <<formVars, callVars, frameVars, dripVars, pageVars, etfVars, effects>>

calculateProjection ==
    LET principal == parseFloat(initialInvestment)
        annualReturn == Div(parseFloat(cagr), Hundred)
        term == parseInt(years)
        tax == parseFloat(taxRate)
        extraAmt == parseFloat(extraInvestment)
        startYearNum == parseInt(startYear)
        error == ProjectionError(principal, annualReturn, term, startYearNum, tax,
                                 extraAmt)
    IN  /\ IF error # ""
           THEN /\ alertMsg' = error
                /\ UNCHANGED projectionData
           ELSE /\ projectionData' =
                       ProjectionRows(principal, Sub(annualReturn, tax), term,
                                      extraAmt, extraFrequency, startYearNum)
                /\ alertMsg' = ""
        /\ UNCHANGED <<formVars, callVars, frameVars, dripVars, pageVars, etfVars, effects>>

NextHome ==
    \/ \E value \in TypedPrincipal : setInitialInvestment(value)
    \/ \E value \in TypedCagr : setCagr(value)
    \/ \E value \in TypedYears : setYears(value)
    \/ \E value \in TypedStartYear : setStartYear(value)
    \/ \E value \in TypedTaxRate : setTaxRate(value)
    \/ \E value \in TypedExtra : setExtraInvestment(value)
    \/ \E value \in DOMAIN FREQUENCY_MAP : setExtraFrequency(value)
    \/ calculateProjection

SpecHome == InitHome /\ [][NextHome]_vars

(***************************************************************************)
(* app/page.tsx: calculateResults of the DRIP / accumulation page          *)
(***************************************************************************)
\* endBalance as the DRIP branch computes it, whatever enableDRIP is
EndBalanceAlwaysReinvested(enableDRIP, startBalance, annualDividend, annualContribution, growthRate) ==
    Mul(Add(Add(startBalance, annualDividend), annualContribution),
        Add(One, growthRate))

\* endBalance of the year, from the branch on enableDRIP
EndBalance(enableDRIP, startBalance, annualDividend, annualContribution, growthRate) ==
    IF enableDRIP
    THEN Mul(Add(Add(startBalance, annualDividend), annualContribution),
             Add(One, growthRate))
    ELSE Mul(Add(startBalance, annualContribution), Add(One, growthRate))

\* the shares bought in the year, from the branch on enableDRIP
\* the new shares with the reinvested dividend left out of the purchase
NewSharesFromContributionOnly(enableDRIP, annualDividend, annualContribution, sharePrice) ==
    Div(annualContribution, sharePrice)

NewShares(enableDRIP, annualDividend, annualContribution, sharePrice) ==
    IF enableDRIP
    THEN Div(Add(annualDividend, annualContribution), sharePrice)
    ELSE Div(annualContribution, sharePrice)

\* the unrounded values of one pass of the loop body of calculateResults;
\* prev holds the running variables as the previous pass left them
ResultsYear(data, year, prev) ==
    LET growthRate == Div(data.estimatedAnnualGrowth, Hundred)
        divGrowthRate == Div(data.dividendGrowthRate, Hundred)
        taxFactor == Sub(One, Div(data.dividendTaxRate, Hundred))
        startBalance == prev.endBalance
        annualDividend == Mul(Mul(startBalance, prev.currentDivYield), taxFactor)
        endBalance == EndBalance(data.enableDRIP, startBalance, annualDividend,
                                 data.annualContribution, growthRate)
    IN  [year |-> year,
         startBalance |-> startBalance,
         annualDividend |-> annualDividend,
         cumulativeDividends |-> Add(prev.cumulativeDividends, annualDividend),
         totalContributions |-> Add(prev.totalContributions, data.annualContribution),
         endBalance |-> endBalance,
         totalShares |->
             Add(prev.totalShares,
                 NewShares(data.enableDRIP, annualDividend, data.annualContribution,
                           prev.sharePrice)),
         roi |-> Mul(Div(Sub(Sub(endBalance, startBalance), data.annualContribution),
                         startBalance), Hundred),
         sharePrice |-> Mul(prev.sharePrice, Add(One, growthRate)),
         currentDivYield |-> Mul(prev.currentDivYield, Add(One, divGrowthRate))]

\* the running variables before the first pass
ResultsStart(data) ==
    [year |-> 0,
     startBalance |-> Zero,
     annualDividend |-> Zero,
     cumulativeDividends |-> Zero,
     totalContributions |-> data.initialInvestment,
     endBalance |-> data.initialInvestment,
     totalShares |-> Div(data.initialInvestment, data.currentSharePrice),
     roi |-> Zero,
     sharePrice |-> data.currentSharePrice,
     currentDivYield |-> Div(data.dividendYield, Hundred)]

\* for (let year = 1; year <= yearsToHold; year++): the unrounded passes
RECURSIVE ResultsLoop(_, _, _, _)
ResultsLoop(data, year, prev, acc) ==
    IF ~Le(Num(year), data.yearsToHold) THEN acc
    ELSE LET r == ResultsYear(data, year, prev)
         IN  After(r.endBalance, ResultsLoop(data, year + 1, r, Append(acc, r)))

ResultsUnrounded(data) == ResultsLoop(data, 1, ResultsStart(data), <<>>)

\* the record pushed to resultsArray for one pass
ResultItem(r) ==
    [year |-> r.year,
     startBalance |-> MathRound(r.startBalance),
     sharePrice |-> ToFixed2(r.sharePrice),
     totalShares |-> ToFixed2(r.totalShares),
     annualDividend |-> MathRound(r.annualDividend),
     cumulativeDividends |-> MathRound(r.cumulativeDividends),
     totalContributions |-> MathRound(r.totalContributions),
     endBalance |-> MathRound(r.endBalance),
     returnOnInvestment |-> MathRound(r.roi)]

calculateResults(data) ==
    LET unrounded == ResultsUnrounded(data)
    IN  [i \in 1..Len(unrounded) |-> ResultItem(unrounded[i])]

\* percentages whose fractions stay in halves, quarters, eighths, ...
DividendYields == {Num(0), Num(25), Num(50)}
DividendGrowthRates == {Num(0), Num(100)}
DividendTaxRates == {Num(0), Num(50), Num(100)}

ResultsInputs ==
    [initialInvestment : {Num(0), Num(7)},
     annualContribution : {Num(0), Num(3)},
     yearsToHold : Horizons,
     estimatedAnnualGrowth : {Num(0), Num(100)},
     dividendYield : DividendYields,
     dividendGrowthRate : DividendGrowthRates,
     dividendTaxRate : DividendTaxRates,
     currentSharePrice : {Num(0), Num(2), Num(5)},
     enableDRIP : BOOLEAN]

(***************************************************************************)
(* One call of calculateResults on an arbitrary input                      *)
(***************************************************************************)
InitResults ==
    /\ NoPage /\ NoEtf /\ NoEffects
    /\ NoFrames
    /\ callArgs \in ResultsInputs
    /\ callRet = <<>>
    /\ callPc = "ready"
    /\ alertMsg = ""
    /\ NoDrip
    /\ NoHome

CallCalculateResults ==
    /\ callPc = "ready"
    /\ callRet' = calculateResults(callArgs)
    /\ callPc' = "returned"
    /\ UNCHANGED <<callArgs, alertMsg, dripVars, homeVars, frameVars, pageVars, etfVars, effects>>

NextResults == CallCalculateResults

SpecResults == InitResults /\ [][NextResults]_vars

(***************************************************************************)
(* app/page.tsx: the DRIPCalculator page around calculateResults           *)
(***************************************************************************)
\* the strings the form hands to handleChange for each field
PageTypedValues ==
    [tickerSymbol |-> {<<"S", "C", "H", "D">>, <<"V", "T", "I">>},
     initialInvestment |-> {Blank, <<"7">>},
     annualContribution |-> {Blank, <<"3">>},
     yearsToHold |-> {Negative, <<"1">>, <<"2">>},
     estimatedAnnualGrowth |-> {<<"1", "0", "0">>},
     dividendYield |-> {Blank, <<"5", "0">>},
     dividendGrowthRate |-> {Blank},
     dividendTaxRate |-> {<<"5", "0">>},
     currentSharePrice |-> {<<"2">>}]

PageFields == DOMAIN PageTypedValues

\* name === "tickerSymbol" ? value : parseFloat(value) || 0
ChangedValue(name, value) ==
    IF name = "tickerSymbol" THEN value
    ELSE LET parsed == parseFloat(value)
         IN  IF IsNaN(parsed) \/ parsed = Zero THEN Zero ELSE parsed

ChangedValues(name) == {ChangedValue(name, v) : v \in PageTypedValues[name]}

\* the form data the page can hold once the user has typed into its fields.
\* The values of defaultValues (a 30-year horizon at 7.5% growth) lie outside
\* the exact arithmetic of this model, so the page starts from any typed form.
PageFormData ==
    [tickerSymbol : ChangedValues("tickerSymbol"),
     initialInvestment : ChangedValues("initialInvestment"),
     annualContribution : ChangedValues("annualContribution"),
     yearsToHold : ChangedValues("yearsToHold"),
     estimatedAnnualGrowth : ChangedValues("estimatedAnnualGrowth"),
     dividendYield : ChangedValues("dividendYield"),
     dividendGrowthRate : ChangedValues("dividendGrowthRate"),
     dividendTaxRate : ChangedValues("dividendTaxRate"),
     currentSharePrice : ChangedValues("currentSharePrice"),
     enableDRIP : BOOLEAN]

\* the first render: formData and appliedFormData hold the same values,
\* results is [] and the mount effect is scheduled
InitPage ==
    /\ formData \in PageFormData
    /\ appliedFormData = formData
    /\ hasCalculated = FALSE
    /\ effects = {"mount"}
    /\ alertMsg = ""
    /\ NoDrip
    /\ NoCall
    /\ NoFrames
    /\ NoHome
    /\ NoEtf

\* React runs the effects of a committed render before it renders the next
\* update, so the handlers act on the page its mount effect has left
handleChange(name, value) ==
    /\ effects = {}
    /\ formData' = [formData EXCEPT ![name] = ChangedValue(name, value)]
    /\ UNCHANGED <<appliedFormData, hasCalculated, effects, alertMsg, dripVars, callVars, frameVars, homeVars, etfVars>>

handleSwitchChange ==
    /\ effects = {}
    /\ formData' = [formData EXCEPT !.enableDRIP = ~formData.enableDRIP]
    /\ UNCHANGED <<appliedFormData, hasCalculated, effects, alertMsg, dripVars, callVars, frameVars, homeVars, etfVars>>

\* handleSubmit recomputing the results from the data applied before
handleSubmitFromApplied ==
    /\ effects = {}
    /\ appliedFormData' = formData
    /\ results' = calculateResults(appliedFormData)
    /\ hasCalculated' = TRUE
    /\ UNCHANGED <<formData, effects, alertMsg, inputs, showResults, totalReturnCAGR, callVars, frameVars, homeVars, etfVars>>

handleSubmit ==
    /\ effects = {}
    /\ appliedFormData' = formData
    /\ results' = calculateResults(formData)
    /\ hasCalculated' = TRUE
    /\ UNCHANGED <<formData, effects, alertMsg, inputs, showResults, totalReturnCAGR, callVars, frameVars, homeVars, etfVars>>

\* useEffect(() => { ... }, []): the effect of the first render
MountEffect ==
    /\ "mount" \in effects
    /\ results' = calculateResults(appliedFormData)
    /\ hasCalculated' = TRUE
    /\ effects' = effects \ {"mount"}
    /\ UNCHANGED <<formData, appliedFormData, alertMsg, inputs, showResults, totalReturnCAGR, callVars, frameVars, homeVars, etfVars>>

NextPage ==
    \/ \E name \in PageFields : \E value \in PageTypedValues[name] :
           handleChange(name, value)
    \/ handleSwitchChange
    \/ handleSubmit
    \/ MountEffect

SpecPage == InitPage /\ [][NextPage]_vars

(***************************************************************************)
(* app/etf-comparison/page.tsx: simulateGrowth                             *)
(***************************************************************************)
\* i % freq === 0 for a loop index i >= 1
IsYearEnd(i, freq) == IsFinite(freq) /\ freq # Zero /\ Div(Num(i), freq)[2] = 1

\* one pass of the loop body: value = value * (1 + periodRate) + contribution,
\* pushed to yearlyValues when i % freq === 0
SimulatePass(i, periodRate, contribution, freq, st) ==
    LET next == Add(Mul(st.finalValue, Add(One, periodRate)), contribution)
    IN  [finalValue |-> next,
         yearlyValues |-> IF IsYearEnd(i, freq) THEN Append(st.yearlyValues, next)
                          ELSE st.yearlyValues]

\* the passes i = lo .. hi of the loop in order, from the state st before them.
\* The range is halved so that a year of weekly periods evaluates in a shallow
\* recursion, and the state between the halves is bound as a value.
RECURSIVE SimulatePasses(_, _, _, _, _, _)
SimulatePasses(lo, hi, periodRate, contribution, freq, st) ==
    IF lo > hi THEN st
    ELSE IF lo = hi THEN SimulatePass(lo, periodRate, contribution, freq, st)
    ELSE CHOOSE last \in
             {SimulatePasses(((lo + hi) \div 2) + 1, hi, periodRate, contribution, freq, first) :
                 first \in {SimulatePasses(lo, (lo + hi) \div 2, periodRate, contribution,
                                           freq, st)}} : TRUE

\* the number of passes of "for (let i = 1; i <= totalPeriods; i++)" for a
\* finite or NaN totalPeriods
PassCount(totalPeriods) ==
    IF ~IsFinite(totalPeriods) \/ Lt(totalPeriods, One) THEN 0
    ELSE totalPeriods[1] \div totalPeriods[2]

simulateGrowth(principal, annualRate, years_, contribution, freq) ==
    SimulatePasses(1, PassCount(Mul(years_, freq)), Div(annualRate, freq), contribution,
                   freq, [finalValue |-> principal, yearlyValues |-> <<principal>>])

\* contributions per year of each contribution frequency
freqMap ==
    [weekly |-> Num(52), fortnightly |-> Num(26), monthly |-> Num(12),
     quarterly |-> Num(4), annually |-> Num(1)]

\* annual rates (as fractions of 1) whose factor per month, per quarter and
\* per year is a whole number
AnnualRates == {Num(0), Num(12), Num(24)}

\* the arguments of one call: every frequency of freqMap without growth, and
\* the three coarsest with it
SimulateInputs ==
    [principal : {Num(0), Num(1), Num(10)},
     annualRate : AnnualRates,
     years : {Num(-1), Num(0), Frac(1, 2), Num(1)},
     contribution : {Num(0), Num(3)},
     freq : {freqMap.monthly, freqMap.quarterly, freqMap.annually}]
    \cup
    [principal : {Num(0), Num(1), Num(10)},
     annualRate : {Num(0)},
     years : {Num(-1), Num(0), Frac(1, 2), Num(1)},
     contribution : {Num(0), Num(3)},
     freq : {freqMap.weekly, freqMap.fortnightly}]

(***************************************************************************)
(* One call of simulateGrowth on an arbitrary input                        *)
(***************************************************************************)
InitSimulate ==
    /\ callArgs \in SimulateInputs
    /\ callRet = <<>>
    /\ callPc = "ready"
    /\ alertMsg = ""
    /\ NoFrames
    /\ NoDrip
    /\ NoHome
    /\ NoPage
    /\ NoEtf
    /\ NoEffects

CallSimulateGrowth ==
    /\ callPc = "ready"
    /\ callRet' = simulateGrowth(callArgs.principal, callArgs.annualRate, callArgs.years,
                                 callArgs.contribution, callArgs.freq)
    /\ callPc' = "returned"
    /\ UNCHANGED <<callArgs, alertMsg, dripVars, homeVars, frameVars, pageVars, etfVars, effects>>

NextSimulate == CallSimulateGrowth

SpecSimulate == InitSimulate /\ [][NextSimulate]_vars

(***************************************************************************)
(* app/etf-comparison/page.tsx: ETFProjectionPage                          *)
(***************************************************************************)
\* @/data/etfs.json is not among the sources.  Two funds stand for it, with
\* the fields recalcProjections reads and rates taken from AnnualRates; the
\* fund that grows most depends on drip.
etfsData ==
    <<[ticker |-> "VTI", avgReturn |-> Num(12), dividendYield |-> Num(0)],
      [ticker |-> "SCHD", avgReturn |-> Num(0), dividendYield |-> Num(24)]>>

\* the entry of table that recalcProjections maps etf to, from the state of
\* the render
EtfRow(etf) ==
    LET effectiveRate == Add(etf.avgReturn, IF drip THEN etf.dividendYield ELSE Zero)
        sim == simulateGrowth(initialCapital, effectiveRate, years, additionalContribution,
                              freqMap[contributionFrequency])
    IN  [ticker |-> etf.ticker,
         avgReturn |-> etf.avgReturn,
         dividendYield |-> etf.dividendYield,
         portfolioGrowth |-> sim.finalValue,
         yearlyValues |-> sim.yearlyValues]

\* row placed into sorted, behind every entry it does not exceed
InsertByGrowth(row, sorted) ==
    LET k == Cardinality({i \in 1..Len(sorted) :
                             ~Gt(row.portfolioGrowth, sorted[i].portfolioGrowth)})
    IN  SubSeq(sorted, 1, k) \o <<row>> \o SubSeq(sorted, k + 1, Len(sorted))

\* table.sort((a, b) => b.portfolioGrowth - a.portfolioGrowth): a stable sort
RECURSIVE SortByGrowth(_)
SortByGrowth(table) ==
    IF table = <<>> THEN <<>>
    ELSE InsertByGrowth(table[Len(table)], SortByGrowth(SubSeq(table, 1, Len(table) - 1)))

\* getColor(index, opacity)
getColor(index, opacity) ==
    LET colors == <<"255, 99, 132", "54, 162, 235", "255, 206, 86", "75, 192, 192",
                    "153, 102, 255">>
    IN  [rgb |-> colors[(index % Len(colors)) + 1], opacity |-> opacity]

\* the chart datasets recalcProjections makes of the sorted table
Datasets(table) ==
    [i \in 1..Len(table) |->
        [label |-> table[i].ticker,
         data |-> [k \in 1..Len(table[i].yearlyValues) |->
                      MathRound(table[i].yearlyValues[k])],
         borderColor |-> getColor(i - 1, One),
         backgroundColor |-> getColor(i - 1, Frac(1, 2)),
         tension |-> Frac(3, 10)]]

\* a new array is not the array the state holds
NewRef(ref) == IF ref = 1 THEN 2 ELSE 1

\* the effects a render of the page schedules: recalcProjections is declared in
\* the component body, so the dependency [recalcProjections] of the effect is a
\* new function in every render
EffectsOfRender == {"recalcProjections"}

\* recalcProjections, with the render its three state updates cause: the
\* arrays it sets are new ones, so React renders the page again
recalcProjections ==
    /\ computedTableData' = SortByGrowth([i \in 1..Len(etfsData) |-> EtfRow(etfsData[i])])
    /\ chartLabels' = [i \in 1..PassCount(Add(years, One)) |-> <<DigitChars[i]>>]
    /\ chartDatasets' = Datasets(computedTableData')
    /\ tableRef' = NewRef(tableRef)
    /\ effects' = EffectsOfRender

\* Number(value) of the value of a number input
Number(value) ==
    LET start == IF HasSign(value) THEN 2 ELSE 1
        ni == DigitRun(value, start)
        dot == start + ni <= Len(value) /\ value[start + ni] = "."
        nf == IF dot THEN DigitRun(value, start + ni + 1) ELSE 0
    IN  IF value = <<>> THEN Zero
        ELSE IF ni + nf > 0 /\ start + ni + (IF dot THEN 1 + nf ELSE 0) = Len(value) + 1
        THEN parseFloat(value)
        ELSE NaN

\* what the inputs of the form hand to their onChange handlers: the strings of
\* the number inputs, the options of the select that the rates of etfsData
\* keep whole, and the checkbox
EtfTypedValues ==
    [initialCapital |-> {Blank, <<"1">>},
     years |-> {Blank, <<"1">>},
     additionalContribution |-> {Blank, <<"3">>},
     contributionFrequency |-> {"monthly", "quarterly", "annually"},
     drip |-> BOOLEAN]

\* the variables of the other pages, with the form strings of Home but years
notEtfVars ==
    <<callVars, alertMsg, dripVars, frameVars, pageVars, initialInvestment, cagr, startYear,
      taxRate, extraInvestment, extraFrequency, projectionData>>

\* the first render: the useState defaults, but for initialCapital and years,
\* whose defaults 10000 and 10 lie outside the exact arithmetic of this model
InitEtf ==
    /\ initialCapital \in {Number(v) : v \in EtfTypedValues.initialCapital}
    /\ years \in {Number(v) : v \in EtfTypedValues.years}
    /\ drip = TRUE
    /\ additionalContribution = Zero
    /\ contributionFrequency = "monthly"
    /\ computedTableData = <<>>
    /\ chartDatasets = <<>>
    /\ chartLabels = <<>>
    /\ tableRef = 0
    /\ lastEvent = ""
    /\ effects = EffectsOfRender
    /\ initialInvestment = <<>> /\ cagr = <<>> /\ startYear = <<>> /\ taxRate = <<>>
    /\ extraInvestment = <<>> /\ extraFrequency = "" /\ projectionData = <<>>
    /\ alertMsg = ""
    /\ NoCall
    /\ NoDrip
    /\ NoFrames
    /\ NoPage

\* the onChange handler of the input with this id, and the render its state
\* update causes (React leaves out the render when the state keeps its value)
onChange(id, value) ==
    /\ initialCapital' = IF id = "initialCapital" THEN Number(value) ELSE initialCapital
    /\ years' = IF id = "years" THEN Number(value) ELSE years
    /\ additionalContribution' =
           IF id = "additionalContribution" THEN Number(value) ELSE additionalContribution
    /\ contributionFrequency' = IF id = "contributionFrequency" THEN value ELSE contributionFrequency
    /\ drip' = IF id = "drip" THEN value ELSE drip
    /\ <<etfFormVars, years>>' # <<etfFormVars, years>>
    /\ lastEvent' = "change"
    /\ effects' = EffectsOfRender
    /\ UNCHANGED <<etfResultVars, tableRef, notEtfVars>>

\* handleSubmit of ETFProjectionPage
handleSubmitProjection ==
    /\ recalcProjections
    /\ lastEvent' = "submit"
    /\ UNCHANGED <<etfFormVars, years, notEtfVars>>

\* useEffect(() => { recalcProjections(); }, [recalcProjections])
RunEffect ==
    /\ "recalcProjections" \in effects
    /\ recalcProjections
    /\ lastEvent' = "effect"
    /\ UNCHANGED <<etfFormVars, years, notEtfVars>>

UserEvent ==
    \/ \E id \in DOMAIN EtfTypedValues : \E value \in EtfTypedValues[id] : onChange(id, value)
    \/ handleSubmitProjection

NextEtf == UserEvent \/ RunEffect

SpecEtf == InitEtf /\ [][NextEtf]_vars

\* a step of RunEffect, told by what it does to lastEvent and tableRef; it is
\* possible exactly when RunEffect is, whose computation has no condition
EffectRuns ==
    /\ "recalcProjections" \in effects
    /\ lastEvent' = "effect"
    /\ tableRef' = NewRef(tableRef)

\* React runs every effect a committed render has scheduled
SpecEtfFair == SpecEtf /\ WF_tableRef(EffectRuns)

(***************************************************************************)
(* Properties of calculateDRIP                                             *)
(***************************************************************************)
IsPosInt(a) == IsFinite(a) /\ a[2] = 1 /\ a[1] > 0

\* C1: for an investmentPeriod that is a positive integer N, calculateDRIP
\* returns exactly N records and their yearNumber values are 1, 2, ..., N in
\* that order.
C1_RecordPerYear ==
    (callPc = "returned" /\ IsPosInt(callArgs.investmentPeriod)) =>
        /\ Len(callRet) = callArgs.investmentPeriod[1]
        /\ \A i \in 1..Len(callRet) : callRet[i].yearNumber = i

C1_Witness ==
    /\ callPc = "returned"
    /\ IsPosInt(callArgs.investmentPeriod)
    /\ Len(callRet) >= 2
    /\ callRet[2].yearNumber = 2

\* C2: for every accepted input, expenseRatio > 0 included, the openingNAV of
\* every period after the first equals the postTaxNAV of the period before it.
C2_Continuity ==
    (callPc = "returned" /\ inputsAreValid(callArgs)) =>
        \A i \in 2..Len(callRet) :
            Eq(callRet[i].openingNAV, callRet[i - 1].postTaxNAV)

\* C7: a currentSharePrice <= 0 makes calculateDRIP divide by nothing and
\* produce no yearly record.
C7_NoRecordsForBadPrice ==
    (callPc = "returned" /\ Le(callArgs.currentSharePrice, Zero)) =>
        Len(callRet) = 0

C5_FullTaxRejected ==
    [][(Eq(inputs.dividendTaxRate, Hundred) /\ handleCalculate) =>
          /\ ~inputsAreValid(inputs)
          /\ alertMsg' = InvalidInputsAlert
          /\ UNCHANGED <<results, showResults>>]_vars

\* C6: whenever the horizon investmentPeriod is <= 0, the page has raised an
\* error for it and shows no summary value computed from it (not even the 0
\* that stands for an empty result).
C6_HorizonRejected ==
    Le(inputs.investmentPeriod, Zero) =>
        /\ alertMsg # ""
        /\ ~totalReturnCAGR.zero

(***************************************************************************)
(* Properties of the monthly-stepped calculator                            *)
(***************************************************************************)
\* the form as calculateProjection reads it
FormPrincipal == parseFloat(initialInvestment)
FormAnnualReturn == Div(parseFloat(cagr), Hundred)
FormTerm == parseInt(years)
FormTax == parseFloat(taxRate)
FormExtraAmt == parseFloat(extraInvestment)
FormStartYear == parseInt(startYear)
FormNetReturn == Sub(FormAnnualReturn, FormTax)
FormMonthlyReturn == Sub(PowRoot(Add(One, FormNetReturn), 12), One)

\* every field of the form is in its valid range
FieldsInRange ==
    /\ Gt(FormPrincipal, Zero)
    /\ Gt(FormAnnualReturn, Zero)
    /\ Gt(FormTerm, Zero)
    /\ Ge(FormStartYear, Num(currentYear))
    /\ Ge(FormTax, Zero) /\ Le(FormTax, One)
    /\ Ge(FormExtraAmt, Zero)

\* the balance after n more years of the monthly loop
RECURSIVE BalanceAfterYears(_, _)
BalanceAfterYears(balance, n) ==
    IF n = 0 THEN balance
    ELSE BalanceAfterYears(
             MonthLoop(balance, 1, FormMonthlyReturn,
                       ExtraPerPeriod(FormExtraAmt, extraFrequency), extraFrequency),
             n - 1)

\* C3: for a valid term of N years calculateProjection records exactly N
\* rows, and the endBalance of the last row is the balance after N years.
C3_RowPerYear ==
    [][(calculateProjection /\ FieldsInRange /\ Gt(FormNetReturn, Zero)) =>
          /\ Len(projectionData') = FormTerm[1]
          /\ projectionData'[Len(projectionData')].endBalance =
                 BalanceAfterYears(FormPrincipal, FormTerm[1])]_vars

\* C4: every contribution event adds the amount entered in the form, in every
\* month for monthly, months 3, 6, 9, 12 for quarterly and month 12 for
\* yearly: each row's endBalance is its startBalance grown for twelve months
\* with the entered amount added at each event.
C4_EnteredAmountPerEvent ==
    [][(calculateProjection /\ FieldsInRange /\ Gt(FormNetReturn, Zero)) =>
          \A i \in 1..Len(projectionData') :
              projectionData'[i].endBalance =
                  MonthLoop(projectionData'[i].startBalance, 1, FormMonthlyReturn,
                            FormExtraAmt, extraFrequency)]_vars

EndBalances(res) == [i \in 1..Len(res) |-> res[i].endBalance]

\* the dividend of year i with nothing reinvested: the balance that opens the
\* year times the yield grown for i - 1 years, less the tax
RECURSIVE AccumulationBalance(_, _)
AccumulationBalance(data, i) ==
    IF i = 0 THEN data.initialInvestment
    ELSE Mul(Add(AccumulationBalance(data, i - 1), data.annualContribution),
             Add(One, Div(data.estimatedAnnualGrowth, Hundred)))

AccumulationDividend(data, i) ==
    Mul(Mul(AccumulationBalance(data, i - 1),
            Mul(Div(data.dividendYield, Hundred),
                PowInt(Add(One, Div(data.dividendGrowthRate, Hundred)), i - 1))),
        Sub(One, Div(data.dividendTaxRate, Hundred)))

RECURSIVE AccumulationDividendSum(_, _)
AccumulationDividendSum(data, i) ==
    IF i = 0 THEN Zero
    ELSE Add(AccumulationDividendSum(data, i - 1), AccumulationDividend(data, i))

\* C8: with enableDRIP = FALSE the endBalance of every year is the same for
\* every dividendYield, dividendGrowthRate and dividendTaxRate, while each
\* year's annualDividend and cumulativeDividends are still reported.
C8_NoReinvestmentIsolation ==
    (callPc = "returned" /\ ~callArgs.enableDRIP) =>
        /\ \A y \in DividendYields, g \in DividendGrowthRates, t \in DividendTaxRates :
               EndBalances(calculateResults(
                   [callArgs EXCEPT !.dividendYield = y, !.dividendGrowthRate = g,
                                    !.dividendTaxRate = t])) = EndBalances(callRet)
        /\ \A i \in 1..Len(callRet) :
               /\ callRet[i].annualDividend = MathRound(AccumulationDividend(callArgs, i))
               /\ callRet[i].cumulativeDividends =
                      MathRound(AccumulationDividendSum(callArgs, i))

C8_Witness ==
    /\ callPc = "returned"
    /\ ~callArgs.enableDRIP
    /\ Len(callRet) >= 2
    /\ Gt(callRet[2].annualDividend, Zero)
    /\ Gt(callRet[2].cumulativeDividends, callRet[2].annualDividend)
    /\ EndBalances(calculateResults([callArgs EXCEPT !.enableDRIP = TRUE]))
           # EndBalances(callRet)

(***************************************************************************)
(* Properties of the DRIPCalculator form handlers                          *)
(***************************************************************************)
\* the typed string is negative or is not a number
Unacceptable(value) == IsNaN(parseFloat(value)) \/ Lt(parseFloat(value), Zero)

\* C11: a negative or non-numeric entry is never silently replaced by a
\* default: once handleInputChange has run on it, the field holds the number
\* that was entered or an error has been reported.
C11_NoSilentDefault ==
    [][\A field \in Fields : \A value \in TypedValues[field] :
           (Unacceptable(value) /\ handleInputChange(field, value)) =>
               \/ inputs'[field] = parseFloat(value)
               \/ alertMsg' # ""]_vars

\* the inputs of the form that pass inputsAreValid
ValidTypedInputs == {inp \in TypedInputs : inputsAreValid(inp)}

\* what calculateDRIP returns on them
ValidResults == {calculateDRIP(inp) : inp \in ValidTypedInputs}

\* C20: handleCalculate on inputs that fail inputsAreValid leaves results and
\* showResults as they were, and results is always empty or what calculateDRIP
\* returns on inputs that pass inputsAreValid.
C20_ResultsFromValidInputs ==
    /\ [][(handleCalculate /\ ~inputsAreValid(inputs)) =>
              UNCHANGED <<results, showResults>>]_vars
    /\ [](results = <<>> \/ results \in ValidResults)

C20_Witness ==
    /\ ~inputsAreValid(inputs)
    /\ alertMsg = InvalidInputsAlert
    /\ results # <<>>
    /\ showResults

WithoutYear(r) == [f \in (DOMAIN r) \ {"year"} |-> r[f]]

\* C14: a run that differs in startingYear only returns the same records
\* apart from year, and year = startingYear + yearNumber - 1 in each record.
C14_StartingYearIsLabel ==
    (callPc = "returned") =>
        /\ \A y \in StartingYears :
               LET other == calculateDRIP([callArgs EXCEPT !.startingYear = y])
               IN  /\ Len(other) = Len(callRet)
                   /\ \A i \in 1..Len(callRet) :
                          WithoutYear(other[i]) = WithoutYear(callRet[i])
        /\ \A i \in 1..Len(callRet) :
               callRet[i].year =
                   Add(callArgs.startingYear, Num(callRet[i].yearNumber - 1))

C14_Witness ==
    /\ callPc = "returned"
    /\ callArgs.startingYear = Num(2030)
    /\ Len(callRet) >= 2
    /\ callRet[2].year = Num(2031)
    /\ calculateDRIP([callArgs EXCEPT !.startingYear = Num(2026)])[2].year = Num(2027)
    /\ Gt(callRet[2].postTaxNAV, Zero)

\* C17: for inputs that pass inputsAreValid, every record has
\* netDividends + dividendTaxPaid = grossDividends and
\* 0 <= netDividends <= grossDividends, with dividendTaxPaid =
\* grossDividends * dividendTaxRate / 100.
C17_DividendSplit ==
    (callPc = "returned" /\ inputsAreValid(callArgs)) =>
        \A i \in 1..Len(callRet) :
            /\ Eq(Add(callRet[i].netDividends, callRet[i].dividendTaxPaid),
                  callRet[i].grossDividends)
            /\ Le(Zero, callRet[i].netDividends)
            /\ Le(callRet[i].netDividends, callRet[i].grossDividends)
            /\ Eq(callRet[i].dividendTaxPaid,
                  Div(Mul(callRet[i].grossDividends, callArgs.dividendTaxRate), Hundred))

C16_Pure ==
    /\ [][\A c \in Callers :
              (frames'[c] # frames[c]) =>
                  /\ \A d \in Callers \ {c} : frames'[d] = frames[d]
                  /\ UNCHANGED <<callVars, alertMsg, dripVars, homeVars>>]_vars
    /\ [](\A c \in Callers :
              frames[c].pc = "returned" =>
                  /\ frames[c].results = calculateDRIP(frames[c].inp)
                  /\ \A d \in Callers :
                         (frames[d].pc = "returned" /\ frames[d].inp = frames[c].inp) =>
                             frames[d].results = frames[c].results)

C16_Witness ==
    /\ frames # <<>>
    /\ \A c \in Callers : frames[c].pc = "returned"
    /\ frames["handleCalculate"].inp = frames["calculateTotalReturnCAGR"].inp
    /\ Len(frames["handleCalculate"].results) >= 2
    /\ frames["handleCalculate"].results = frames["calculateTotalReturnCAGR"].results

(***************************************************************************)
(* unnamed/part_003: InvestmentProjectionCalculator, projectionData        *)
(***************************************************************************)
\* one pass of "for (let year = 1; year <= termYears; year++)"
PortfolioYear(inp, year, startBalance) ==
    LET dividends == Mul(startBalance, Div(inp.dividendYield, Hundred))
        contributions == Mul(inp.extraContribution, Num(12))
        preGrowthBalance == Add(Add(startBalance, dividends), contributions)
        growth == Mul(preGrowthBalance, Div(inp.returnRate, Hundred))
        expenses == Mul(preGrowthBalance, Div(inp.expenseRatio, Hundred))
        taxes == Mul(dividends, Div(inp.taxRate, Hundred))
    IN  [year |-> year,
         startBalance |-> startBalance,
         dividends |-> dividends,
         contributions |-> contributions,
         preGrowthBalance |-> preGrowthBalance,
         returnRate |-> inp.returnRate,
         growth |-> growth,
         expenses |-> expenses,
         taxes |-> taxes,
         endBalance |-> Sub(Sub(Add(preGrowthBalance, growth), expenses), taxes)]

\* the record pushed for the year, then the loop from the next year on
PortfolioPush(inp, year, r, acc) == <<r.endBalance, Append(acc, r)>>

RECURSIVE PortfolioLoop(_, _, _, _)
\* the loop from year + 1 on, after the pass of year left <<currentBalance, results>>
PortfolioLoopNext(inp, year, pushed) == PortfolioLoop(inp, year + 1, pushed[1], pushed[2])

PortfolioLoop(inp, year, currentBalance, acc) ==
    IF ~Le(Num(year), inp.termYears) THEN acc
    ELSE PortfolioLoopNext(inp, year,
                           PortfolioPush(inp, year,
                                         PortfolioYear(inp, year, currentBalance), acc))

\* the value of the projectionData memo for the inputs inp
projectionDataMemo(inp) == PortfolioLoop(inp, 1, inp.initialCapital, <<>>)

PortfolioInputs ==
    [initialCapital : {Num(0), Num(8)},
     termYears : Horizons,
     returnRate : {Num(0), Num(100)},
     dividendYield : {Num(0), Num(50)},
     expenseRatio : {Num(0), Num(50)},
     taxRate : {Num(0), Num(50)},
     extraContribution : {Num(0), Num(1)}]

InitPortfolio ==
    /\ NoPage /\ NoEtf /\ NoEffects
    /\ NoFrames
    /\ callArgs \in PortfolioInputs
    /\ callRet = <<>>
    /\ callPc = "ready"
    /\ alertMsg = ""
    /\ NoDrip
    /\ NoHome

ComputeProjectionData ==
    /\ callPc = "ready"
    /\ callRet' = projectionDataMemo(callArgs)
    /\ callPc' = "returned"
    /\ UNCHANGED <<callArgs, alertMsg, dripVars, homeVars, frameVars, pageVars, etfVars, effects>>

NextPortfolio == ComputeProjectionData

SpecPortfolio == InitPortfolio /\ [][NextPortfolio]_vars

\* C18: in every variant with an expense ratio the fee of a period is the
\* period's opening value times the expense ratio; for projectionData:
\* expenses = startBalance * expenseRatio / 100 in every row.
C18_FeeOnOpeningValue ==
    (callPc = "returned") =>
        \A i \in 1..Len(callRet) :
            Eq(callRet[i].expenses,
               Mul(callRet[i].startBalance, Div(callArgs.expenseRatio, Hundred)))

\* C19: with a zero starting balance (initialInvestment = 0) no return is
\* computed by dividing by zero: every returnOnInvestment that calculateResults
\* reports is a finite number.
C19_FiniteReturns ==
    (/\ callPc = "returned"
     /\ callArgs.initialInvestment = Zero
     /\ Gt(callArgs.currentSharePrice, Zero)) =>
        \A i \in 1..Len(callRet) : IsFinite(callRet[i].returnOnInvestment)

(***************************************************************************)
(* Further properties of the DRIPCalculator component                      *)
(***************************************************************************)
\* C21: after any sequence of handleInputChange calls every numeric field of
\* inputs holds a number >= 0, never NaN and never a negative number.
C21_FieldsNonNegative ==
    \A f \in Fields : ~IsNaN(inputs[f]) /\ Ge(inputs[f], Zero)

C21_Witness ==
    /\ inputs.initialInvestment = Zero
    /\ inputs.investmentPeriod = Zero
    /\ inputs.dividendYield = Num(50)

\* C26: whenever the results table is shown, the Projected Total Return
\* (CAGR) on the page is computed from the inputs that produced the displayed
\* records: the final value it uses is the postTaxNAV of the last displayed
\* record.
C26_CagrMatchesTable ==
    (showResults /\ Len(results) > 0) =>
        /\ ~totalReturnCAGR.zero
        /\ totalReturnCAGR.finalValue = results[Len(results)].postTaxNAV

(***************************************************************************)
(* Further properties of the monthly-stepped calculator                    *)
(***************************************************************************)
\* C22: whenever a validation check of calculateProjection fails (principal,
\* CAGR, term, start year, tax rate outside [0, 1], extra amount, or a net
\* return <= 0), projectionData is left exactly as it was before the call.
C22_FailedCheckKeepsProjection ==
    [][(calculateProjection /\ (~FieldsInRange \/ Le(FormNetReturn, Zero))) =>
          /\ UNCHANGED projectionData
          /\ alertMsg' # ""]_vars

C22_Witness ==
    /\ Len(projectionData) > 0
    /\ ~FieldsInRange
    /\ alertMsg = "Please enter a valid investment term (years) > 0"

C25_ResultsOfAppliedFormData ==
    /\ [](effects = {} => hasCalculated /\ results = calculateResults(appliedFormData))
    /\ [][formData' # formData => UNCHANGED <<appliedFormData, results, hasCalculated>>]_vars
    /\ [][(effects = {} /\ (appliedFormData' # appliedFormData \/ results' # results)) =>
              appliedFormData' = formData /\ results' = calculateResults(formData)]_vars

\* the form was edited after the results of a two-year projection were set
C25_Witness ==
    /\ effects = {} /\ hasCalculated
    /\ appliedFormData.yearsToHold = Num(2) /\ Len(results) = 2
    /\ formData.yearsToHold = One /\ formData.enableDRIP # appliedFormData.enableDRIP
    /\ Gt(results[2].annualDividend, Zero)

\* C28: with contribution = 0 the values simulateGrowth returns do not depend
\* on freq: after a call without contributions, the call with the same
\* principal, annualRate and years and any other frequency of freqMap returns
\* the same yearlyValues and finalValue.
C28_FrequencyIndependent ==
    (callPc = "returned" /\ callArgs.contribution = Zero) =>
        \A f \in {freqMap.monthly, freqMap.quarterly, freqMap.annually} :
            simulateGrowth(callArgs.principal, callArgs.annualRate, callArgs.years, Zero, f) = callRet

\* C24: the computed results of ETFProjectionPage change only on the first
\* render and on form submission: a step that changes computedTableData,
\* chartDatasets or chartLabels is handleSubmit or the effect of the first
\* render, so a change of the form alone leaves them as they are.
C24_ResultsChangeOnlyOnSubmit ==
    [][etfResultVars' # etfResultVars =>
          (lastEvent' = "submit" \/ (lastEvent' = "effect" /\ tableRef = 0))]_vars

\* C23: ETFProjectionPage reaches quiescence: once the user stops interacting
\* (from some state on no step is an onChange or a submission, so that every
\* step left is a run of the effect), the render/effect cycle eventually
\* stops and no effect is left scheduled.
C23_Quiescence == (<>[][lastEvent' = "effect"]_vars) => <>[](effects = {})

====
